---- MODULE Spec2Model ----
(***************************************************************************)
(* A model of uv's resolution graph (crates/uv-resolver/src/resolution.rs): *)
(* ResolutionGraph::from_state, which turns the solver's selection and      *)
(* incompatibility store into a petgraph of pinned distributions, and       *)
(* DisplayResolutionGraph::fmt, which renders it as requirements.txt text.  *)
(***************************************************************************)
EXTENDS Integers, Sequences, FiniteSets, TLC

(***************************************************************************)
(* Universes and bounds.                                                   *)
(***************************************************************************)
Names == {"a", "b", "c"}
Extras == {"x", "y"}
Urls == {"u", "r"}
\* The None of Option<ExtraName> and of Option<VerbatimUrl>.
NoExtra == "-"
NoUrl == "-"

\* Versions are 1..MaxVersion; a Range<Version> is the set of versions it contains.
MaxVersion == 2
\* The largest number of entries of the selection.
MaxSel == 3
\* The largest number of FromDependencyOf incompatibilities in the store.
MaxDeps == 2
\* The largest length of no_emit_packages.
MaxNoEmit == 1

Versions == 1..MaxVersion
Ranges == SUBSET Versions

\* PubGrubPackage::Package(name, extra, url), the four shapes of from_state's match,
\* and PubGrubPackage::Root, which stands for the shapes the match ignores.
Variants == [name : Names, extra : Extras \cup {NoExtra}, url : {"u", NoUrl}]
Root == [name |-> "root", extra |-> NoExtra, url |-> NoUrl]
IsPackage(p) == p.name \in Names

\* Option-like lookup helpers for the maps, which are functions on the keys present.
Has(f, k) == k \in DOMAIN f
Insert(f, k, v) == [x \in DOMAIN f \cup {k} |-> IF x = k THEN v ELSE f[x]]
EmptyMap == [x \in {} |-> 0]

(***************************************************************************)
(* State: the arguments of from_state and of DisplayResolutionGraph::new   *)
(* (read-only), the locals from_state builds, and the text fmt writes.     *)
(***************************************************************************)
VARIABLES
  selection,      \* SelectedDependencies: variant -> version
  pins,           \* FilePins: the set of (name, version) that have a pin
  packages,       \* OnceMap<PackageName, VersionsResponse>: name -> (version -> hashes), Found only
  distributions,  \* OnceMap<PackageId, Metadata21>: package id -> provides_extras
  redirects,      \* DashMap<Url, Url>
  badUrls,        \* the urls Dist::from_url returns Err for
  store,          \* State: the FromDependencyOf incompatibilities, in store order
  editables,      \* Editables: name -> (LocalEditable, Metadata21)
  display,        \* the DisplayResolutionGraph fields other than resolution
  order,          \* the entries the first loop visited, in the order the map yielded them
  petgraph,       \* [nodes: sequence of Dist, edges: sequence of (source, target, weight)]
  hashes,         \* FxHashMap<PackageName, Vec<Hashes>>
  inverse,        \* FxHashMap<&PackageName, NodeIndex>
  diagnostics,    \* Vec<Diagnostic>
  pc,             \* "start", then from_state's outcome "done", "panicked" or "failed",
                  \* then "rendered"
  culprit,        \* the selection entry at which construction aborted, and the pass
  output,         \* the text written by fmt
  seed,           \* venv's argument seed
  python_request, \* venv's argument python_request is Some(..)
  venv_pc,        \* the position of the venv command: "idle" while it is not run
  interpreter,    \* the python_tuple of the interpreter that was located
  venv,           \* gourgeist's Venv: whether it was created, and its interpreter
  requirements,   \* the requirements handed to build_dispatch.resolve
  resolution,     \* the requirements the resolution was made for
  installed,      \* the requirements whose resolution was installed
  calls,          \* create_venv, resolve and install, in the order they were called
  result,         \* what venv_impl returned: "Ok" or "Err", "pending" before
  error,          \* the error venv_impl returned
  status          \* what venv returned

inputs == <<selection, pins, packages, distributions, redirects, badUrls, store, editables,
            display>>
locals == <<petgraph, hashes, inverse, diagnostics>>
venv_vars == <<seed, python_request, venv_pc, interpreter, venv, requirements, resolution,
               installed, calls, result, error, status>>
graph_vars == <<inputs, order, locals, pc, culprit, output>>
vars == <<graph_vars, venv_vars>>

(***************************************************************************)
(* Distributions.                                                          *)
(***************************************************************************)
\* Dist::from_editable(name, editable): a path source dist flagged editable. Infallible.
FromEditable(name, editable) ==
  [kind |-> "editable", name |-> name, version |-> 0, url |-> editable.url]

\* Dist::from_url(name, url): Err for the urls it cannot classify.
FromUrlFails(url) == url \in badUrls
FromUrl(name, url) == [kind |-> "url", name |-> name, version |-> 0, url |-> url]

\* pins.get(name, version): the registry distribution pinned for the pair, if any.
PinsHas(name, version) == <<name, version>> \in pins
PinsGet(name, version) ==
  [kind |-> "registry", name |-> name, version |-> version, url |-> NoUrl]

\* redirects.get(url).map_or_else(|| url.clone(), |url| VerbatimUrl::unknown(..)).
Redirected(url) == IF Has(redirects, url) THEN redirects[url] ELSE url

\* PubGrubDistribution::from_registry(name, version).package_id() and
\* PubGrubDistribution::from_url(name, url).package_id().
RegistryId(name, version) == [name |-> name, version |-> version, url |-> NoUrl]
UrlId(name, url) == [name |-> "", version |-> 0, url |-> url]

(***************************************************************************)
(* from_state, pass 1: "Add every package to the graph."                   *)
(* G is the record of the locals: petgraph, hashes, inverse, diagnostics,  *)
(* and status: "ok", "panicked" (expect, unwrap_or_else(panic!), a missing *)
(* index) or "failed" (a `?` that returned Err).                           *)
(***************************************************************************)
NewGraph ==
  [petgraph |-> [nodes |-> <<>>, edges |-> <<>>], hashes |-> EmptyMap,
   inverse |-> EmptyMap, diagnostics |-> <<>>, status |-> "ok",
   culprit |-> [package |-> Root, pass |-> "none"]]

Panic(G) == [G EXCEPT !.status = "panicked"]
Fail(G) == [G EXCEPT !.status = "failed"]

\* version_map.hashes(version) followed by sort_unstable().
SortedHashes(hs) == SortSeq(hs, LAMBDA x, y : x < y)

\* "Add its hashes to the index": only for a VersionsResponse::Found.
IndexHashes(h, name, version) ==
  IF Has(packages, name) THEN Insert(h, name, SortedHashes(packages[name][version])) ELSE h

\* "Add the distribution to the graph": petgraph.add_node, then inverse.insert.
AddNode(G, name, version, dist) ==
  [G EXCEPT !.hashes = IndexHashes(@, name, version),
            !.petgraph.nodes = Append(@, dist),
            !.inverse = Insert(@, name, Len(G.petgraph.nodes) + 1)]

\* A missing extra returned as an error instead of being pushed.
PushMissingExtraAsError(G, dist, extra) == Fail(G)

\* diagnostics.push(Diagnostic::MissingExtra { dist, extra }).
PushMissingExtra(G, dist, extra) ==
  [G EXCEPT !.diagnostics = Append(@, [dist |-> dist, extra |-> extra])]

\* PlainArm consulting the pin table before the editables.
PlainArmPinFirst(G, name, version) ==
  IF PinsHas(name, version)
    THEN AddNode(G, name, version, PinsGet(name, version))
  ELSE IF Has(editables, name)
    THEN AddNode(G, name, version, FromEditable(name, editables[name]))
  ELSE Panic(G)

\* PlainArm passing over a package without a pin instead of panicking on expect.
PlainArmSkippingUnpinned(G, name, version) ==
  IF Has(editables, name)
    THEN AddNode(G, name, version, FromEditable(name, editables[name]))
  ELSE IF PinsHas(name, version)
    THEN AddNode(G, name, version, PinsGet(name, version))
  ELSE G

\* PubGrubPackage::Package(package_name, None, None)
PlainArm(G, name, version) ==
  IF Has(editables, name)
    THEN AddNode(G, name, version, FromEditable(name, editables[name]))
  ELSE IF PinsHas(name, version)
    THEN AddNode(G, name, version, PinsGet(name, version))
  ELSE Panic(G)

\* PubGrubPackage::Package(package_name, None, Some(url))
UrlArm(G, name, version, url) ==
  IF Has(editables, name)
    THEN AddNode(G, name, version, FromEditable(name, editables[name]))
  ELSE IF FromUrlFails(Redirected(url))
    THEN Fail(G)
  ELSE AddNode(G, name, version, FromUrl(name, Redirected(url)))

\* PubGrubPackage::Package(package_name, Some(extra), None)
ExtraArm(G, name, version, extra) ==
  IF Has(editables, name)
    THEN IF extra \notin editables[name].provides_extras
           THEN PushMissingExtra(G, FromEditable(name, editables[name]), extra)
           ELSE G
  ELSE IF ~Has(distributions, RegistryId(name, version))
    THEN Panic(G)
  ELSE IF extra \notin distributions[RegistryId(name, version)]
    THEN IF PinsHas(name, version)
           THEN PushMissingExtra(G, PinsGet(name, version), extra)
           ELSE Panic(G)
  ELSE G

\* PubGrubPackage::Package(package_name, Some(extra), Some(url))
ExtraUrlArm(G, name, version, extra, url) ==
  IF Has(editables, name)
    THEN IF extra \notin editables[name].provides_extras
           THEN PushMissingExtra(G, FromEditable(name, editables[name]), extra)
           ELSE G
  ELSE IF ~Has(distributions, UrlId(name, url))
    THEN Panic(G)
  ELSE IF extra \notin distributions[UrlId(name, url)]
    THEN IF FromUrlFails(Redirected(url))
           THEN Fail(G)
           ELSE PushMissingExtra(G, FromUrl(name, Redirected(url)), extra)
  ELSE G

\* The body of the first loop: match package { ... }.
AddPackage(G, package, version) ==
  IF ~IsPackage(package) THEN G
  ELSE IF package.extra = NoExtra /\ package.url = NoUrl
    THEN PlainArm(G, package.name, version)
  ELSE IF package.extra = NoExtra
    THEN UrlArm(G, package.name, version, package.url)
  ELSE IF package.url = NoUrl
    THEN ExtraArm(G, package.name, version, package.extra)
  ELSE ExtraUrlArm(G, package.name, version, package.extra, package.url)

(***************************************************************************)
(* from_state, pass 2: "Add every edge to the graph."                      *)
(***************************************************************************)
\* state.incompatibilities[package]: the solver files an incompatibility under each
\* package it has a term for, so a FromDependencyOf is found under its self package
\* and under its dependency package. Incompatibilities of other kinds fail the
\* `if let` and are left out of the store.
ListedUnder(dep, package) ==
  dep.self_package = package \/ dep.dependency_package = package

\* petgraph's update_edge(a, b, weight): the weight of the first edge a -> b is
\* replaced, and without one the edge is added at the end of the edge list.
FindEdge(edges, a, b) ==
  {i \in 1..Len(edges) : edges[i].source = a /\ edges[i].target = b}
UpdateEdge(edges, a, b, weight) ==
  IF FindEdge(edges, a, b) # {}
    THEN LET i == CHOOSE k \in FindEdge(edges, a, b) :
                    \A m \in FindEdge(edges, a, b) : k <= m
         IN [edges EXCEPT ![i].weight = weight]
    ELSE Append(edges, [source |-> a, target |-> b, weight |-> weight])

\* AddEdge without `if self_package == dependency_package { continue; }`.
AddEdgeKeepingSelfLoops(G, version, dep) ==
  IF ~IsPackage(dep.self_package) THEN G
  ELSE IF ~IsPackage(dep.dependency_package) THEN G
  ELSE IF version \notin dep.self_version THEN G
  ELSE IF ~Has(G.inverse, dep.self_package.name) THEN Panic(G)
  ELSE IF ~Has(G.inverse, dep.dependency_package.name) THEN Panic(G)
  ELSE [G EXCEPT !.petgraph.edges =
          UpdateEdge(@, G.inverse[dep.self_package.name],
                     G.inverse[dep.dependency_package.name], dep.dependency_range)]

\* The body of the inner loop for one FromDependencyOf, reached for the selected
\* entry whose version is `version`.
AddEdge(G, version, dep) ==
  IF ~IsPackage(dep.self_package) THEN G
  ELSE IF ~IsPackage(dep.dependency_package) THEN G
  ELSE IF dep.self_package.name = dep.dependency_package.name THEN G
  ELSE IF version \notin dep.self_version THEN G
  ELSE IF ~Has(G.inverse, dep.self_package.name) THEN Panic(G)
  ELSE IF ~Has(G.inverse, dep.dependency_package.name) THEN Panic(G)
  ELSE [G EXCEPT !.petgraph.edges =
          UpdateEdge(@, G.inverse[dep.self_package.name],
                     G.inverse[dep.dependency_package.name], dep.dependency_range)]

\* for id in &state.incompatibilities[package] { ... }, from store position i on.
RECURSIVE AddEdgesFrom(_, _, _, _)
AddEdgesFrom(G, package, version, i) ==
  IF i > Len(store) \/ G.status # "ok" THEN G
  ELSE AddEdgesFrom(IF ListedUnder(store[i], package)
                      THEN AddEdge(G, version, store[i]) ELSE G,
                    package, version, i + 1)

AddEdges(G, package, version) == AddEdgesFrom(G, package, version, 1)

(***************************************************************************)
(* from_state as a whole. `visit` is the order in which the selection (a   *)
(* hash map) yields its entries; both loops iterate the same map.          *)
(***************************************************************************)
\* G.culprit: the entry at which construction aborted and the pass it aborted in.
Aborted(G, package, pass) == [G EXCEPT !.culprit = [package |-> package, pass |-> pass]]

RECURSIVE NodePass(_, _, _)
NodePass(G, visit, i) ==
  IF i > Len(visit) THEN G
  ELSE LET H == AddPackage(G, visit[i], selection[visit[i]])
       IN IF H.status # "ok" THEN Aborted(H, visit[i], "nodes")
          ELSE NodePass(H, visit, i + 1)

RECURSIVE EdgePass(_, _, _)
EdgePass(G, visit, i) ==
  IF i > Len(visit) \/ G.status # "ok" THEN G
  ELSE LET H == AddEdges(G, visit[i], selection[visit[i]])
       IN IF H.status # "ok" THEN Aborted(H, visit[i], "edges")
          ELSE EdgePass(H, visit, i + 1)

FromStateIn(visit) == EdgePass(NodePass(NewGraph, visit, 1), visit, 1)

\* The orders a map with the keys S can be iterated in.
Orders(S) ==
  {f \in [1..Cardinality(S) -> S] : \A i, j \in 1..Cardinality(S) : f[i] = f[j] => i = j}

(***************************************************************************)
(* Text. A string is the sequence of its characters; the two ANSI escapes  *)
(* of owo_colors' green() are one element each.                            *)
(***************************************************************************)
\* The characters of the modelled strings in byte order (str's and PackageName's Ord).
Alphabet == <<"\n", " ", "#", ",", "-", "1", "2", "3", "4", "5", "6", "7", "8", "9",
              ":", "=", "@", "\\", "a", "b", "c", "e", "h", "i", "r", "s", "u", "v",
              "w", "x", "y", "z">>
Rank(c) == CHOOSE i \in 1..Len(Alphabet) : Alphabet[i] = c

\* Lexicographic order of strings.
RECURSIVE StrLess(_, _)
StrLess(s, t) ==
  IF t = <<>> THEN FALSE
  ELSE IF s = <<>> THEN TRUE
  ELSE IF Head(s) # Head(t) THEN Rank(Head(s)) < Rank(Head(t))
  ELSE StrLess(Tail(s), Tail(t))

Digit(n) == <<"1", "2", "3", "4", "5", "6", "7", "8", "9">>[n]
Spaces(n) == [i \in 1..n |-> " "]

\* format!("{line:24}"): padded with spaces up to the width, never cut.
LineWidth == 24
Pad(s, width) == IF Len(s) >= width THEN s ELSE s \o Spaces(width - Len(s))

\* str::trim_end
RECURSIVE TrimEnd(_)
TrimEnd(s) ==
  IF s # <<>> /\ s[Len(s)] = " " THEN TrimEnd(SubSeq(s, 1, Len(s) - 1)) ELSE s

\* str::lines: the text split at its newlines, without a last empty line.
RECURSIVE Lines(_)
Lines(s) ==
  IF s = <<>> THEN <<>>
  ELSE LET ends == {i \in 1..Len(s) : s[i] = "\n"}
       IN IF ends = {} THEN <<s>>
          ELSE LET k == CHOOSE i \in ends : \A j \in ends : i <= j
               IN <<SubSeq(s, 1, k - 1)>> \o Lines(SubSeq(s, k + 1, Len(s)))

\* Iterator::join
RECURSIVE Join(_, _)
Join(strs, sep) ==
  IF strs = <<>> THEN <<>>
  ELSE IF Len(strs) = 1 THEN strs[1]
  ELSE strs[1] \o sep \o Join(Tail(strs), sep)

\* OwoColorize::green
Green(s) == <<"^[[32m">> \o s \o <<"^[[39m">>

\* PackageName's Display, and Verbatim for a LocalEditable and for a Dist:
\* `name==version` for a registry distribution, `name @ url` for a URL one.
NameStr(name) == <<name>>
EditableVerbatim(editable) == <<editable.url>>
DistVerbatim(dist) ==
  IF dist.kind = "registry" THEN NameStr(dist.name) \o <<"=", "=">> \o <<Digit(dist.version)>>
  ELSE IF dist.kind = "url" THEN NameStr(dist.name) \o <<" ", "@", " ">> \o <<dist.url>>
  ELSE <<dist.url>>

\* Hashes::to_string: None for a Hashes without a digest (0), else `sha256:<digest>`.
HashHasString(hash) == hash # 0
HashToString(hash) == <<"s", "h", "a", "2", "5", "6", ":">> \o <<Digit(hash)>>

(***************************************************************************)
(* DisplayResolutionGraph::fmt. R is the resolution (petgraph, hashes; its *)
(* editables are the ones from_state was given), D the other fields.       *)
(***************************************************************************)
\* The Node of a node index: Editable when the name is in the editables.
NodeAt(R, index) ==
  LET dist == R.petgraph.nodes[index]
  IN [index |-> index, name |-> dist.name, dist |-> dist,
      kind |-> IF Has(editables, dist.name) THEN "Editable" ELSE "Distribution"]

\* Node::key, with the derived Ord of NodeKey: the variant first (Editable before
\* Distribution), then the string.
NodeKey(node) ==
  IF node.kind = "Editable"
    THEN [variant |-> 0, str |-> EditableVerbatim(editables[node.name])]
    ELSE [variant |-> 1, str |-> NameStr(node.name)]
KeyLess(k1, k2) ==
  k1.variant < k2.variant \/ (k1.variant = k2.variant /\ StrLess(k1.str, k2.str))

\* NodeLess sorting every node by its package name, editable or not.
NodeLessByName(n1, n2) ==
  \/ StrLess(NameStr(n1.name), NameStr(n2.name))
  \/ n1.name = n2.name /\ n1.index < n2.index

\* The order of sort_unstable_by_key(|(index, node)| (node.key(), *index)).
NodeLess(n1, n2) ==
  \/ KeyLess(NodeKey(n1), NodeKey(n2))
  \/ NodeKey(n1) = NodeKey(n2) /\ n1.index < n2.index

\* CollectNodes without the test of no_emit_packages.
CollectNodesUnfiltered(R, D) == [i \in 1..Len(R.petgraph.nodes) |-> NodeAt(R, i)]

\* "Collect all packages": the nodes in index order, without the excluded names.
CollectNodes(R, D) ==
  SelectSeq([i \in 1..Len(R.petgraph.nodes) |-> NodeAt(R, i)],
            LAMBDA node : node.name \notin D.no_emit_packages)

SortedNodes(R, D) == SortSeq(CollectNodes(R, D), NodeLess)

\* "Display the node itself."
RequirementOf(node) ==
  IF node.kind = "Distribution" THEN DistVerbatim(node.dist)
  ELSE <<"-", "e", " ">> \o EditableVerbatim(editables[node.name])

\* "Display the distribution hashes, if any": the hashes that are written.
ShownHashes(R, D, node) ==
  IF D.show_hashes /\ Has(R.hashes, node.name)
    THEN SelectSeq(R.hashes[node.name], HashHasString)
    ELSE <<>>
RECURSIVE HashText(_)
HashText(hs) ==
  IF hs = <<>> THEN <<>>
  ELSE <<" ", "\\", "\n">> \o <<" ", " ", " ", " ", "-", "-", "h", "a", "s", "h", "=">>
       \o HashToString(Head(hs)) \o HashText(Tail(hs))

\* Dependents without the sort: the sources in the order of the edges.
DependentsUnsorted(R, index) ==
  LET incoming == SelectSeq(R.petgraph.edges, LAMBDA e : e.target = index)
  IN [i \in 1..Len(incoming) |-> R.petgraph.nodes[incoming[i].source]]

\* edges_directed(index, Incoming) mapped to the source nodes' distributions, then
\* sort_unstable_by_key(|package| package.name()).
Dependents(R, index) ==
  LET incoming == SelectSeq(R.petgraph.edges, LAMBDA e : e.target = index)
      sources == [i \in 1..Len(incoming) |-> R.petgraph.nodes[incoming[i].source]]
  IN SortSeq(sources, LAMBDA d1, d2 : StrLess(NameStr(d1.name), NameStr(d2.name)))

DependentNames(R, index) ==
  [i \in 1..Len(Dependents(R, index)) |-> NameStr(Dependents(R, index)[i].name)]

\* LineAnnotation with the double space whether or not a hash was written.
LineAnnotationDoubleSpace(deps, has_hashes) ==
  IF deps = <<>> THEN <<>>
  ELSE <<[separator |-> <<" ", " ">>,
          comment |-> Green(<<"#", " ", "v", "i", "a", " ">> \o Join(deps, <<",", " ">>))]>>

\* "Determine the annotation comment and separator": <<>> for None, else the pair.
LineAnnotation(deps, has_hashes) ==
  IF deps = <<>> THEN <<>>
  ELSE <<[separator |-> IF has_hashes THEN <<"\n", " ", " ", " ", " ">> ELSE <<" ", " ">>,
          comment |-> Green(<<"#", " ", "v", "i", "a", " ">> \o Join(deps, <<",", " ">>))]>>

SplitAnnotation(deps) ==
  IF deps = <<>> THEN <<>>
  ELSE IF Len(deps) = 1
    THEN <<[separator |-> <<"\n">>,
            comment |-> Green(<<" ", " ", " ", " ", "#", " ", "v", "i", "a", " ">> \o deps[1])]>>
  ELSE <<[separator |-> <<"\n">>,
          comment |-> Green(<<" ", " ", " ", " ", "#", " ", "v", "i", "a", "\n">>
                            \o Join([i \in 1..Len(deps) |->
                                       <<" ", " ", " ", " ", "#", " ", " ", " ">> \o deps[i]],
                                    <<"\n">>))]>>

Annotation(R, D, node, has_hashes) ==
  IF ~D.include_annotations THEN <<>>
  ELSE IF D.annotation_style = "Line"
    THEN LineAnnotation(DependentNames(R, node.index), has_hashes)
  ELSE SplitAnnotation(DependentNames(R, node.index))

\* writeln! of every line of the text, each without its trailing whitespace.
RECURSIVE WriteTrimmed(_)
WriteTrimmed(lines) ==
  IF lines = <<>> THEN <<>>
  ELSE TrimEnd(Head(lines)) \o <<"\n">> \o WriteTrimmed(Tail(lines))

\* The body of "Print out the dependency graph" for one node.
Stanza(R, D, node) ==
  LET shown == ShownHashes(R, D, node)
      line == RequirementOf(node) \o HashText(shown)
      annotation == Annotation(R, D, node, shown # <<>>)
  IN IF annotation # <<>>
       THEN WriteTrimmed(Lines(Pad(line, LineWidth) \o annotation[1].separator
                                 \o annotation[1].comment))
       ELSE line \o <<"\n">>

RECURSIVE WriteNodes(_, _, _)
WriteNodes(R, D, nodes) ==
  IF nodes = <<>> THEN <<>>
  ELSE Stanza(R, D, Head(nodes)) \o WriteNodes(R, D, Tail(nodes))

Fmt(R, D) == WriteNodes(R, D, SortedNodes(R, D))

(***************************************************************************)
(* The venv command: venv calls venv_impl and maps its error to a failure  *)
(* status. Every call that returns a Result fails or succeeds.             *)
(***************************************************************************)
\* Interpreter::python_tuple of the interpreters that can be found.
PythonTuples == {<<2, 7>>, <<3, 11>>, <<3, 12>>, <<3, 13>>, <<4, 0>>}
NoInterpreter == <<0, 0>>
NoVenv == [created |-> FALSE, interpreter |-> NoInterpreter]

\* The order of Rust tuples.
TupleLess(s, t) == s[1] < t[1] \/ (s[1] = t[1] /\ s[2] < t[2])

\* SeedRequirements with `setuptools` and `wheel` for every interpreter.
SeedRequirementsAlways(python_tuple) == <<"pip", "setuptools", "wheel">>

\* "Resolve the seed packages": the requirements vector.
SeedRequirements(python_tuple) ==
  <<"pip">> \o (IF TupleLess(python_tuple, <<3, 12>>) THEN <<"setuptools", "wheel">> ELSE <<>>)

\* The match of venv on what venv_impl returned.
ExitOf(returned) == IF returned = "Ok" THEN "Ok(Success)" ELSE "Ok(Failure)"

\* The venv variables while the command is not run.
VenvIdle ==
  /\ seed = FALSE
  /\ python_request = FALSE
  /\ venv_pc = "idle"
  /\ interpreter = NoInterpreter
  /\ venv = NoVenv
  /\ requirements = <<>>
  /\ resolution = <<>>
  /\ installed = <<>>
  /\ calls = <<>>
  /\ result = "pending"
  /\ error = ""
  /\ status = "none"

\* `?` on an Err: venv_impl returns the error.
Throw(tag) ==
  /\ venv_pc' = "impl_returned"
  /\ result' = "Err"
  /\ error' = tag

\* "Locate the Python interpreter."
Locate ==
  /\ venv_pc = "locate"
  /\ \/ /\ \E found \in PythonTuples : interpreter' = found
        /\ venv_pc' = "announce"
        /\ UNCHANGED <<result, error>>
     \/ /\ \E tag \in {"Platform", "Interpreter"} \cup
                       (IF python_request THEN {"NoSuchPython"} ELSE {}) : Throw(tag)
        /\ UNCHANGED interpreter
  /\ UNCHANGED <<graph_vars, seed, python_request, venv, requirements, resolution,
                 installed, calls, status>>

\* The two writeln! before the environment is created.
Announce ==
  /\ venv_pc = "announce"
  /\ \/ venv_pc' = "create" /\ UNCHANGED <<result, error>>
     \/ Throw("Io")
  /\ UNCHANGED <<graph_vars, seed, python_request, interpreter, venv, requirements,
                 resolution, installed, calls, status>>

\* "Create the virtual environment."
CreateVenv ==
  /\ venv_pc = "create"
  /\ calls' = Append(calls, "create_venv")
  /\ \/ /\ venv' = [created |-> TRUE, interpreter |-> interpreter]
        /\ venv_pc' = IF seed THEN "flat_index" ELSE "activate"
        /\ UNCHANGED <<result, error>>
     \/ Throw("Creation") /\ UNCHANGED venv
  /\ UNCHANGED <<graph_vars, seed, python_request, interpreter, requirements, resolution,
                 installed, status>>

\* "Resolve the flat indexes from `--find-links`."
ResolveFlatIndex ==
  /\ venv_pc = "flat_index"
  /\ \/ venv_pc' = "resolve" /\ UNCHANGED <<result, error>>
     \/ \E tag \in {"Tags", "FlatIndex"} : Throw(tag)
  /\ UNCHANGED <<graph_vars, seed, python_request, interpreter, venv, requirements,
                 resolution, installed, calls, status>>

\* "Resolve the seed packages."
ResolveSeed ==
  /\ venv_pc = "resolve"
  /\ requirements' = SeedRequirements(venv.interpreter)
  /\ calls' = Append(calls, "resolve")
  /\ \/ /\ resolution' = requirements'
        /\ venv_pc' = "install"
        /\ UNCHANGED <<result, error>>
     \/ Throw("Seed") /\ UNCHANGED resolution
  /\ UNCHANGED <<graph_vars, seed, python_request, interpreter, venv, installed, status>>

\* "Install into the environment."
InstallSeed ==
  /\ venv_pc = "install"
  /\ calls' = Append(calls, "install")
  /\ \/ /\ installed' = resolution
        /\ venv_pc' = "report"
        /\ UNCHANGED <<result, error>>
     \/ Throw("Seed") /\ UNCHANGED installed
  /\ UNCHANGED <<graph_vars, seed, python_request, interpreter, venv, requirements,
                 resolution, status>>

\* The writeln! of every installed distribution.
ReportSeed ==
  /\ venv_pc = "report"
  /\ \/ venv_pc' = "activate" /\ UNCHANGED <<result, error>>
     \/ Throw("Io")
  /\ UNCHANGED <<graph_vars, seed, python_request, interpreter, venv, requirements,
                 resolution, installed, calls, status>>

\* The writeln! of the activation hint, and Ok(ExitStatus::Success).
Activate ==
  /\ venv_pc = "activate"
  /\ \/ venv_pc' = "impl_returned" /\ result' = "Ok" /\ UNCHANGED error
     \/ Throw("Io")
  /\ UNCHANGED <<graph_vars, seed, python_request, interpreter, venv, requirements,
                 resolution, installed, calls, status>>

\* venv: Ok(status) => Ok(status), Err(err) => Ok(ExitStatus::Failure).
VenvReturn ==
  /\ venv_pc = "impl_returned"
  /\ status' = ExitOf(result)
  /\ venv_pc' = "returned"
  /\ UNCHANGED <<graph_vars, seed, python_request, interpreter, venv, requirements,
                 resolution, installed, calls, result, error>>

VenvNext ==
  \/ Locate
  \/ Announce
  \/ CreateVenv
  \/ ResolveFlatIndex
  \/ ResolveSeed
  \/ InstallSeed
  \/ ReportSeed
  \/ Activate
  \/ VenvReturn

(***************************************************************************)
(* The inputs. Three families, each wide where one part of the code reads: *)
(* the node pass, the edge pass, the renderer.                             *)
(***************************************************************************)
\* The provides_extras of a Metadata21: the extra "x" and not "y", or no extra at all.
Provided == {"x"}
\* The verbatim source of a name's editable; their order is not the names' order.
EditableUrl == [n \in Names |-> CASE n = "a" -> "z" [] n = "b" -> "y" [] OTHER -> "w"]
\* VersionMap::hashes: unsorted, and for one version without a printable digest.
VersionHashes == [v \in Versions |-> CASE v = 1 -> <<2, 1>> [] v = 2 -> <<0>> [] OTHER -> <<>>]

EditablesWith(E, extras) == [n \in E |-> [url |-> EditableUrl[n], provides_extras |-> extras]]
MetadataWith(ids, extras) == [id \in ids |-> extras]
EditablesOn(E) == EditablesWith(E, Provided)
MetadataOn(ids) == MetadataWith(ids, Provided)
PackagesOn(N) == [n \in N |-> VersionHashes]
AllPins == Names \X Versions
AllIds == {RegistryId(n, v) : n \in Names, v \in Versions} \cup {UrlId(n, "u") : n \in Names}

\* impl From<&ResolutionGraph> for DisplayResolutionGraph: new(_, &[], false, true, default).
DefaultDisplay ==
  [no_emit_packages |-> {}, show_hashes |-> FALSE, include_annotations |-> TRUE,
   annotation_style |-> "Split"]
Displays ==
  [no_emit_packages : {N \in SUBSET Names : Cardinality(N) <= MaxNoEmit},
   show_hashes : BOOLEAN, include_annotations : BOOLEAN, annotation_style : {"Line", "Split"}]

NamesIn(S) == {p.name : p \in S} \cap Names
UpTo(V, n) == {S \in SUBSET V : Cardinality(S) <= n}
\* A selection on the entries S, every variant of a name at the version ver gives it.
SelectionOn(S, ver) == [p \in S |-> IF IsPackage(p) THEN ver[p.name] ELSE 1]

Start ==
  /\ order = <<>>
  /\ petgraph = NewGraph.petgraph
  /\ hashes = NewGraph.hashes
  /\ inverse = NewGraph.inverse
  /\ diagnostics = NewGraph.diagnostics
  /\ pc = "start"
  /\ culprit = NewGraph.culprit
  /\ output = <<>>

\* The node pass: every shape of variant of two names, and lookup tables that hold
\* or lack each entry the selection reads.
NodeVariants == {p \in Variants : p.name \in {"a", "b"}} \cup {Root}
InitNodes ==
  /\ \E S \in UpTo(NodeVariants, MaxSel), selected \in Versions :
       LET ver == [n \in Names |-> selected]
           plain == {p \in S : IsPackage(p) /\ p.url = NoUrl}
           extraPlain == {p \in S : p.extra # NoExtra /\ p.url = NoUrl}
           extraUrl == {p \in S : p.extra # NoExtra /\ p.url # NoUrl}
       IN
       /\ selection = SelectionOn(S, ver)
       /\ pins \in {P \cup {<<n, v>> \in AllPins : v # selected} :
                      P \in SUBSET {<<p.name, selected>> : p \in plain}}
       /\ \E extras \in (IF extraPlain \cup extraUrl = {} THEN {Provided} ELSE {Provided, {}}) :
            /\ editables \in {EditablesWith(E, extras) : E \in SUBSET NamesIn(S)}
            /\ distributions \in
                 {MetadataWith(M, extras) :
                    M \in SUBSET ({RegistryId(p.name, selected) : p \in extraPlain}
                                  \cup {UrlId(p.name, p.url) : p \in extraUrl})}
       /\ IF \E p \in S : p.url # NoUrl
            THEN /\ redirects \in {EmptyMap, [u \in {"u"} |-> "r"]}
                 /\ badUrls \in {{}, {"u"}, {"r"}}
            ELSE redirects = EmptyMap /\ badUrls = {}
  /\ packages = EmptyMap
  /\ store = <<>>
  /\ display = DefaultDisplay
  /\ Start
  /\ VenvIdle

\* Plain(name), and the other shapes by hand.
Plain(n) == [name |-> n, extra |-> NoExtra, url |-> NoUrl]
WithExtra(n, e) == [name |-> n, extra |-> e, url |-> NoUrl]
WithUrl(n, u) == [name |-> n, extra |-> NoExtra, url |-> u]

\* The versions the edge and render families select: a and c at 1, b at 2.
FixedVersion == [n \in Names |-> IF n = "b" THEN 2 ELSE 1]

\* The sequences over J of length at most n.
SeqsUpTo(J, n) == UNION {[1..k -> J] : k \in 0..n}

\* The edge pass: every table complete, and a store of any FromDependencyOf between
\* plain packages, an extra variant and the root, with any range for the self version.
EdgeVariants == {Plain(n) : n \in Names} \cup {WithExtra("a", "y")}
EdgeDeps ==
  [self_package : (EdgeVariants \cup {Root}) \ {Plain("c")}, self_version : Ranges \ {{}},
   dependency_package : {Plain(n) : n \in Names}, dependency_range : {Versions, {1}}]
InitEdges ==
  /\ \E S \in UpTo(EdgeVariants, MaxSel) : selection = SelectionOn(S, FixedVersion)
  /\ store \in SeqsUpTo(EdgeDeps, MaxDeps)
  /\ pins = AllPins
  /\ distributions = MetadataOn(AllIds)
  /\ editables = EmptyMap
  /\ redirects = EmptyMap
  /\ badUrls = {}
  /\ packages = EmptyMap
  /\ display = DefaultDisplay
  /\ Start
  /\ VenvIdle

\* The renderer: plain and URL variants, any set of editables, hashes known or not,
\* dependencies between the selected names, and every combination of the flags.
RenderVariants == {Plain(n) : n \in Names} \cup {WithUrl("a", "u")}
RenderDeps(S) ==
  {[self_package |-> Plain(n), self_version |-> Versions,
    dependency_package |-> Plain(m), dependency_range |-> Versions] :
     <<n, m>> \in {nm \in NamesIn(S) \X NamesIn(S) : nm[1] # nm[2]}}
InitRender ==
  /\ \E S \in UpTo(RenderVariants, MaxSel) :
       /\ selection = SelectionOn(S, FixedVersion)
       /\ \E E \in SUBSET NamesIn(S) : editables = EditablesOn(E)
       /\ store \in SeqsUpTo(RenderDeps(S), MaxDeps)
       /\ \E D \in Displays : D.no_emit_packages \subseteq NamesIn(S) /\ display = D
  /\ packages \in {EmptyMap, PackagesOn(Names)}
  /\ pins = AllPins
  /\ distributions = MetadataOn(AllIds)
  /\ redirects = EmptyMap
  /\ badUrls = {}
  /\ Start
  /\ VenvIdle

FromState ==
  /\ pc = "start"
  /\ \E visit \in Orders(DOMAIN selection) :
       LET G == FromStateIn(visit)
       IN /\ order' = IF G.culprit.pass = "nodes"
                       THEN SubSeq(visit, 1, CHOOSE i \in 1..Len(visit) :
                                                 visit[i] = G.culprit.package)
                       ELSE visit
          /\ petgraph' = G.petgraph
          /\ hashes' = G.hashes
          /\ inverse' = G.inverse
          /\ diagnostics' = G.diagnostics
          /\ culprit' = G.culprit
          /\ pc' = IF G.status = "ok" THEN "done" ELSE G.status
  /\ UNCHANGED <<inputs, output, venv_vars>>

\* The resolution from_state returned.
Resolution == [petgraph |-> petgraph, hashes |-> hashes]

Display ==
  /\ pc = "done"
  /\ output' = Fmt(Resolution, display)
  /\ pc' = "rendered"
  /\ UNCHANGED <<inputs, order, locals, culprit, venv_vars>>

Next == FromState \/ Display

SpecNodes == InitNodes /\ [][Next]_vars
SpecEdges == InitEdges /\ [][Next]_vars
SpecRender == InitRender /\ [][Next]_vars
SpecBuild == (InitNodes \/ InitEdges) /\ [][Next]_vars

\* The venv command alone, with any arguments; no resolution is displayed.
InitVenv ==
  /\ selection = SelectionOn({}, FixedVersion)
  /\ pins = {}
  /\ packages = EmptyMap
  /\ distributions = EmptyMap
  /\ redirects = EmptyMap
  /\ badUrls = {}
  /\ store = <<>>
  /\ editables = EmptyMap
  /\ display = DefaultDisplay
  /\ Start
  /\ seed \in BOOLEAN
  /\ python_request \in BOOLEAN
  /\ venv_pc = "locate"
  /\ interpreter = NoInterpreter
  /\ venv = NoVenv
  /\ requirements = <<>>
  /\ resolution = <<>>
  /\ installed = <<>>
  /\ calls = <<>>
  /\ result = "pending"
  /\ error = ""
  /\ status = "none"
SpecVenv == InitVenv /\ [][VenvNext]_vars

Spec == (InitNodes \/ InitEdges \/ InitRender \/ InitVenv) /\ [][Next \/ VenvNext]_vars

(***************************************************************************)
(* Properties.                                                             *)
(***************************************************************************)
Returned == pc \in {"done", "rendered"}
Nodes == petgraph.nodes
Edges == petgraph.edges
NodesNamed(n) == {i \in 1..Len(Nodes) : Nodes[i].name = n}
Selected == DOMAIN selection
\* The selected variants that are materializable nodes: plain, and plain with a URL.
BaseVariants == {p \in Selected : IsPackage(p) /\ p.extra = NoExtra}
\* The selected variants that are extra checks.
ExtraVariants == {p \in Selected : IsPackage(p) /\ p.extra # NoExtra}

\* C1 (as claimed): once from_state has returned, the graph has exactly one node for
\* every package name of which a plain or URL variant was selected, and no node for
\* any other name, however many variants of the name were selected.
C1_NodeUniqueness ==
  Returned =>
    /\ \A n \in NamesIn(BaseVariants) : Cardinality(NodesNamed(n)) = 1
    /\ \A n \in Names \ NamesIn(BaseVariants) : NodesNamed(n) = {}

\* C2: no edge of the graph joins two nodes of the same package name, whatever the
\* selection and the store (a justification between variants of one name adds none).
C2_NoSelfLoops ==
  \A i \in 1..Len(Edges) :
    /\ Edges[i].source # Edges[i].target
    /\ Nodes[Edges[i].source].name # Nodes[Edges[i].target].name

\* C2's case: from_state returned a graph with an edge although a justification of
\* the extra variant a[y] on its base a was read for the selected a[y].
C2_Witness ==
  /\ Returned /\ Edges # <<>>
  /\ WithExtra("a", "y") \in Selected
  /\ \E i \in 1..Len(store) :
       /\ store[i].self_package = WithExtra("a", "y")
       /\ store[i].dependency_package = Plain("a")
       /\ selection[WithExtra("a", "y")] \in store[i].self_version

\* C3: every node of a name that is in the editables is the editable distribution,
\* and a visited plain or URL variant of such a name always gets its node: the node
\* pass never aborts at it, whatever the pin table and the redirect table hold.
IsOfEditable(p) == IsPackage(p) /\ p.extra = NoExtra /\ Has(editables, p.name)
C3_EditablePrecedence ==
  /\ \A i \in 1..Len(Nodes) :
       Has(editables, Nodes[i].name) =>
         Nodes[i] = [kind |-> "editable", name |-> Nodes[i].name, version |-> 0,
                     url |-> editables[Nodes[i].name].url]
  /\ \A n \in DOMAIN editables :
       Cardinality(NodesNamed(n)) =
         Cardinality({i \in 1..Len(order) : IsOfEditable(order[i]) /\ order[i].name = n})
  /\ culprit.pass = "nodes" => ~IsOfEditable(culprit.package)

\* C3's case: a graph was returned for a selection with a plain variant of an editable
\* name that has no pin at the selected version and a URL variant of an editable name
\* whose URL is redirected.
C3_Witness ==
  /\ Returned
  /\ \E p \in BaseVariants :
       p.url = NoUrl /\ Has(editables, p.name) /\ <<p.name, selection[p]>> \notin pins
  /\ \E p \in BaseVariants : p.url # NoUrl /\ Has(editables, p.name) /\ Has(redirects, p.url)

\* A plain variant with no editable and no pin at its selected version.
Unmaterializable(p) ==
  /\ IsPackage(p) /\ p.extra = NoExtra /\ p.url = NoUrl
  /\ ~Has(editables, p.name)
  /\ <<p.name, selection[p]>> \notin pins

MetadataId(p) ==
  IF p.url = NoUrl THEN [name |-> p.name, version |-> selection[p], url |-> NoUrl]
  ELSE [name |-> "", version |-> 0, url |-> p.url]
MetadataResolved(p) == Has(editables, p.name) \/ Has(distributions, MetadataId(p))
Declares(p) ==
  IF Has(editables, p.name) THEN p.extra \in editables[p.name].provides_extras
  ELSE p.extra \in distributions[MetadataId(p)]
\* The selected extra variants whose extra the resolved metadata does not declare.
MissingExtras == {p \in ExtraVariants : MetadataResolved(p) /\ ~Declares(p)}
\* The base variant of an extra variant, and whether a base variant has a distribution.
BaseOf(p) == [p EXCEPT !.extra = NoExtra]
Materializable(p) ==
  \/ Has(editables, p.name)
  \/ p.url = NoUrl /\ <<p.name, selection[p]>> \in pins
  \/ p.url # NoUrl /\ (IF Has(redirects, p.url) THEN redirects[p.url] ELSE p.url) \notin badUrls
\* The materialization of the name of an extra variant.
MaterializationOf(p) ==
  IF Has(editables, p.name)
    THEN [kind |-> "editable", name |-> p.name, version |-> 0, url |-> editables[p.name].url]
  ELSE IF p.url = NoUrl
    THEN [kind |-> "registry", name |-> p.name, version |-> selection[p], url |-> NoUrl]
  ELSE [kind |-> "url", name |-> p.name, version |-> 0,
        url |-> IF Has(redirects, p.url) THEN redirects[p.url] ELSE p.url]
ExpectedDiagnostic(p) == [dist |-> MaterializationOf(p), extra |-> p.extra]
\* The locals as one record, to apply the arms of the node pass to.
Locals ==
  [petgraph |-> petgraph, hashes |-> hashes, inverse |-> inverse,
   diagnostics |-> diagnostics, status |-> "ok", culprit |-> culprit]

\* An edge of the graph has a justification other than a missing extra: some recorded
\* dependency of a variant of the source's name that is not a missing extra on a
\* variant of the target's name.
JustifiedWithoutMissingExtra(edge) ==
  \E i \in 1..Len(store) :
    /\ store[i].self_package \notin MissingExtras
    /\ store[i].self_package.name = Nodes[edge.source].name
    /\ store[i].dependency_package.name = Nodes[edge.target].name

\* C4: in a returned graph the diagnostics are, with multiplicity, one
\* MissingExtra{materialization of the name, extra} for each selected extra variant
\* whose extra the resolved metadata does not declare, and nothing else; such a
\* variant contributes no node, and no edge: the nodes are one per selected plain or
\* URL variant, and every edge is justified by a variant that is not a missing extra.
C4_MissingExtraDetection ==
  Returned =>
    /\ \A p \in ExtraVariants : MetadataResolved(p)
    /\ \A d \in {diagnostics[i] : i \in 1..Len(diagnostics)}
                 \cup {ExpectedDiagnostic(p) : p \in MissingExtras} :
         Cardinality({i \in 1..Len(diagnostics) : diagnostics[i] = d})
           = Cardinality({p \in MissingExtras : ExpectedDiagnostic(p) = d})
    /\ Len(Nodes) = Cardinality(BaseVariants)
    /\ \A p \in ExtraVariants :
         LET H == AddPackage(Locals, p, selection[p])
         IN H.petgraph = petgraph /\ H.inverse = inverse /\ H.hashes = hashes
    /\ \A i \in 1..Len(Edges) : JustifiedWithoutMissingExtra(Edges[i])

\* C6: missing extras never stop from_state: it returns a graph whenever every selected
\* plain or URL variant has a distribution and every extra variant has its metadata
\* and its base variant selected at the same version; it never aborts at a missing
\* extra whose base variant is selected and has a distribution; and the returned
\* graph has a diagnostic for every missing extra and a node for every selected base.
C6_MissingExtrasAdvisory ==
  /\ ( /\ pc # "start"
       /\ \A p \in BaseVariants : Materializable(p)
       /\ \A p \in ExtraVariants :
            /\ MetadataResolved(p)
            /\ BaseOf(p) \in Selected /\ selection[BaseOf(p)] = selection[p] )
     => Returned
  /\ (culprit.pass = "nodes" /\ culprit.package \in MissingExtras)
     => ~( /\ BaseOf(culprit.package) \in Selected
           /\ selection[BaseOf(culprit.package)] = selection[culprit.package]
           /\ Materializable(BaseOf(culprit.package)) )
  /\ Returned =>
       /\ Len(diagnostics) = Cardinality(MissingExtras)
       /\ \A p \in MissingExtras :
            \E i \in 1..Len(diagnostics) :
              diagnostics[i].extra = p.extra /\ diagnostics[i].dist.name = p.name
       /\ \A p \in ExtraVariants : BaseOf(p) \in Selected => NodesNamed(p.name) # {}

\* C6's case: a graph was returned with the node of a base variant and the diagnostics
\* of two extras of that package that its metadata does not declare.
C6_Witness ==
  /\ Returned
  /\ \E p, q \in MissingExtras :
       /\ p # q /\ BaseOf(p) = BaseOf(q) /\ BaseOf(p) \in Selected
       /\ NodesNamed(p.name) # {}
  /\ Len(diagnostics) = 2

\* C7: the rendered text does not depend on the order in which from_state visited
\* the selection: building the graph from the same inputs in any order and rendering
\* it with the same flags gives the text that was written.
C7_DeterministicRendering ==
  pc = "rendered" =>
    \A visit \in Orders(DOMAIN selection) :
      LET G == FromStateIn(visit)
      IN G.status = "ok"
         /\ Fmt([petgraph |-> G.petgraph, hashes |-> G.hashes], display) = output

(***************************************************************************)
(* The written text read back: its stanzas, one per requirement line, the  *)
(* requirement of each and its comments.                                   *)
(***************************************************************************)
\* A requirement line starts a stanza; hash lines and comment lines are indented
\* or coloured.
IsRequirementLine(l) == l # <<>> /\ l[1] \notin {" ", "^[[32m"}

\* A string without its colour escapes, up to a character, and from a character.
Unstyled(s) == SelectSeq(s, LAMBDA c : c \notin {"^[[32m", "^[[39m"})
UpToChar(s, c) ==
  LET at == {i \in 1..Len(s) : s[i] = c}
  IN IF at = {} THEN s ELSE SubSeq(s, 1, (CHOOSE i \in at : \A j \in at : i <= j) - 1)
FromChar(s, c) ==
  LET at == {i \in 1..Len(s) : s[i] = c}
  IN IF at = {} THEN <<>> ELSE SubSeq(s, CHOOSE i \in at : \A j \in at : i <= j, Len(s))

\* The requirement of a requirement line: the text before the comment, the padding
\* and the continuation mark of a hash.
RequirementText(l) ==
  LET t == TrimEnd(UpToChar(l, "^[[32m"))
  IN IF Len(t) >= 2 /\ t[Len(t)] = "\\" /\ t[Len(t) - 1] = " "
       THEN SubSeq(t, 1, Len(t) - 2) ELSE t

\* The comments of a stanza: of each of its lines, the text from the `#` on.
CommentsOf(ls) ==
  SelectSeq([i \in 1..Len(ls) |-> FromChar(Unstyled(ls[i]), "#")], LAMBDA t : t # <<>>)

\* The stanzas of a text: the requirement and the comments of each.
Parse(text) ==
  LET ls == Lines(text)
      starts == {k \in 1..Len(ls) : IsRequirementLine(ls[k])}
      n == Cardinality(starts)
      start == [k \in 1..n |->
                  CHOOSE p \in starts : Cardinality({q \in starts : q < p}) = k - 1]
  IN [k \in 1..n |->
        LET stanza == SubSeq(ls, start[k], IF k = n THEN Len(ls) ELSE start[k + 1] - 1)
        IN [requirement |-> RequirementText(stanza[1]),
            comments |-> CommentsOf(stanza),
            lines |-> stanza]]
Stanzas == Parse(output)

\* The nodes that are to be rendered, and the order they are to be rendered in:
\* the nodes of editable names first, then by sort key, then by node index.
Emitted == {i \in 1..Len(Nodes) : Nodes[i].name \notin display.no_emit_packages}
IsEditableNode(i) == Has(editables, Nodes[i].name)
SortKey(i) ==
  IF IsEditableNode(i) THEN <<editables[Nodes[i].name].url>> ELSE <<Nodes[i].name>>
RendersBefore(i, j) ==
  \/ IsEditableNode(i) /\ ~IsEditableNode(j)
  \/ /\ IsEditableNode(i) = IsEditableNode(j)
     /\ \/ StrLess(SortKey(i), SortKey(j))
        \/ SortKey(i) = SortKey(j) /\ i < j
NodeOfStanza(k) ==
  CHOOSE i \in Emitted : Cardinality({j \in Emitted : RendersBefore(j, i)}) = k - 1
RequirementOfNode(i) == RequirementOf(NodeAt(Resolution, i))

\* C8: the requirement lines of the rendered text are, in this order, the nodes of
\* editable names before all other nodes, within each group in ascending order of
\* the sort key (the editable's verbatim source, else the package name), and nodes
\* of equal keys in the order of their node indices.
C8_RenderSortOrder ==
  pc = "rendered" =>
    LET stanzas == Stanzas
    IN /\ Len(stanzas) = Cardinality(Emitted)
       /\ \A k \in 1..Len(stanzas) :
            stanzas[k].requirement = RequirementOfNode(NodeOfStanza(k))

\* C8's case: a text was rendered in which an editable comes before a distribution
\* of a smaller name, and two nodes of equal keys come in index order.
C8_Witness ==
  /\ pc = "rendered"
  /\ \E i, j, k \in Emitted :
       /\ IsEditableNode(i) /\ ~IsEditableNode(j)
       /\ StrLess(<<Nodes[j].name>>, <<Nodes[i].name>>)
       /\ j < k /\ SortKey(j) = SortKey(k)
       /\ RequirementOfNode(j) # RequirementOfNode(k)
       /\ [n \in 1..Len(Stanzas) |-> Stanzas[n].requirement] =
            <<RequirementOfNode(i), RequirementOfNode(j), RequirementOfNode(k)>>

\* The package names the comments of a stanza mention after `# via`.
Mentioned(cs) ==
  LET rest(l) == IF Len(l) >= 5 /\ SubSeq(l, 1, 5) = <<"#", " ", "v", "i", "a">>
                   THEN SubSeq(l, 6, Len(l)) ELSE l
  IN UNION {{rest(cs[i])[j] : j \in 1..Len(rest(cs[i]))} : i \in 1..Len(cs)} \cap Names

\* C9: no node of an excluded name has a requirement line of its own, every other
\* node has exactly one, and the comments of a rendered node mention every source of
\* its incoming edges, the excluded ones too.
C9_Exclusion ==
  pc = "rendered" =>
    LET stanzas == Stanzas
        requirement == [i \in 1..Len(Nodes) |-> RequirementOfNode(i)]
    IN /\ \A i \in 1..Len(Nodes) :
            Cardinality({k \in 1..Len(stanzas) : stanzas[k].requirement = requirement[i]})
              = IF i \in Emitted
                  THEN Cardinality({j \in Emitted : requirement[j] = requirement[i]})
                  ELSE 0
       /\ \A k \in 1..Len(stanzas) :
            \E i \in Emitted : stanzas[k].requirement = requirement[i]
       /\ display.include_annotations =>
            \A k \in 1..Len(stanzas) :
              Mentioned(stanzas[k].comments) =
                {Nodes[Edges[e].source].name :
                   e \in {e \in 1..Len(Edges) : Edges[e].target = NodeOfStanza(k)}}

\* C9's case: a text was rendered without an excluded package that depends on a
\* rendered package and that a rendered package depends on; the first names it.
C9_Witness ==
  /\ pc = "rendered"
  /\ display.include_annotations
  /\ \E i \in (1..Len(Nodes)) \ Emitted :
       /\ \E e \in 1..Len(Edges) : Edges[e].target = i /\ Edges[e].source \in Emitted
       /\ \E k \in 1..Len(Stanzas), e \in 1..Len(Edges) :
            /\ Edges[e].source = i /\ Edges[e].target = NodeOfStanza(k)
            /\ Nodes[i].name \in Mentioned(Stanzas[k].comments)

\* The names of the sources of a node's incoming edges, in ascending order.
NamesAscending == <<"a", "b", "c">>
SourcesOf(i) ==
  SelectSeq(NamesAscending,
            LAMBDA n : \E e \in 1..Len(Edges) :
                         Edges[e].target = i /\ Nodes[Edges[e].source].name = n)
\* The comments the two styles are to give for the dependents deps.
ViaLine(deps) ==
  IF deps = <<>> THEN <<>>
  ELSE <<<<"#", " ", "v", "i", "a", " ">> \o Join([i \in 1..Len(deps) |-> <<deps[i]>>], <<",", " ">>)>>
ViaSplit(deps) ==
  IF deps = <<>> THEN <<>>
  ELSE IF Len(deps) = 1 THEN <<<<"#", " ", "v", "i", "a", " ", deps[1]>>>>
  ELSE <<<<"#", " ", "v", "i", "a">>>> \o [i \in 1..Len(deps) |-> <<"#", " ", " ", " ", deps[i]>>]

\* C10: with include_annotations the comments of every stanza are those of the
\* sources of the node's incoming edges in ascending name order: none for no
\* dependent; in Line style one `# via dep1, dep2`; in Split style `# via dep` for one
\* dependent, and `# via` followed by one `#   dep` line each for more. Without
\* include_annotations no stanza has a comment.
C10_AnnotationRendering ==
  pc = "rendered" =>
    LET stanzas == Stanzas
    IN /\ Len(stanzas) = Cardinality(Emitted)
       /\ \A k \in 1..Len(stanzas) :
            stanzas[k].comments =
              IF ~display.include_annotations THEN <<>>
              ELSE IF display.annotation_style = "Line"
                THEN ViaLine(SourcesOf(NodeOfStanza(k)))
              ELSE ViaSplit(SourcesOf(NodeOfStanza(k)))

\* C10's case: a text was rendered in Split style with the annotations of a node
\* with two dependents, whose edges were added in descending name order, and of a
\* node with none.
C10_Witness ==
  /\ pc = "rendered"
  /\ display.include_annotations /\ display.annotation_style = "Split"
  /\ \E k \in 1..Len(Stanzas) : Len(Stanzas[k].comments) = 3
  /\ \E k \in 1..Len(Stanzas) : Stanzas[k].comments = <<>>
  /\ \E e, g \in 1..Len(Edges) :
       /\ e < g /\ Edges[e].target = Edges[g].target
       /\ StrLess(<<Nodes[Edges[g].source].name>>, <<Nodes[Edges[e].source].name>>)

\* The hash lines of a stanza, and the coloured `# via` comment of Line style.
IsHashLine(l) ==
  Len(l) >= 11 /\ SubSeq(l, 1, 11) = <<" ", " ", " ", " ", "-", "-", "h", "a", "s", "h", "=">>
HashLinesOf(ls) == {i \in 1..Len(ls) : IsHashLine(ls[i])}
ColouredVia(deps) == <<"^[[32m">> \o ViaLine(deps)[1] \o <<"^[[39m">>
\* The digests of a node that are to be written: with show_hashes, the printable
\* hashes the index holds for its name.
PrintableHashes(i) ==
  IF display.show_hashes /\ Has(hashes, Nodes[i].name)
    THEN {j \in 1..Len(hashes[Nodes[i].name]) : hashes[Nodes[i].name][j] # 0}
    ELSE {}

\* C11: in Line style with annotations, the stanza of a node with a dependent has the
\* `# via` comment on a line of its own, indented, after the requirement and its hash
\* lines when a hash line was written for the node (show_hashes and a printable
\* hash), and on the requirement line, after the padding to 24 columns and two
\* spaces, exactly when none was.
C11_HashSeparator ==
  (pc = "rendered" /\ display.include_annotations /\ display.annotation_style = "Line") =>
    LET stanzas == Stanzas
    IN /\ Len(stanzas) = Cardinality(Emitted)
       /\ \A k \in 1..Len(stanzas) :
            LET ls == stanzas[k].lines
                deps == SourcesOf(NodeOfStanza(k))
                written == HashLinesOf(ls)
            IN /\ Cardinality(written) = Cardinality(PrintableHashes(NodeOfStanza(k)))
               /\ deps # <<>> =>
                    IF written = {}
                      THEN ls = <<Pad(stanzas[k].requirement, 24) \o <<" ", " ">>
                                   \o ColouredVia(deps)>>
                      ELSE /\ Len(ls) = Cardinality(written) + 2
                           /\ written = 2..(Len(ls) - 1)
                           /\ ls[1] = stanzas[k].requirement \o <<" ", "\\">>
                           /\ ls[Len(ls)] = <<" ", " ", " ", " ">> \o ColouredVia(deps)

\* C11's case: a text was rendered in Line style with hashes and annotations, with
\* the comment of one node after its hash lines and the comment of another node, for
\* which no hash was written, on its requirement line.
C11_Witness ==
  /\ pc = "rendered"
  /\ display.include_annotations /\ display.annotation_style = "Line" /\ display.show_hashes
  /\ \E k \in 1..Len(Stanzas) :
       /\ HashLinesOf(Stanzas[k].lines) # {}
       /\ Stanzas[k].comments # <<>>
  /\ \E k \in 1..Len(Stanzas) :
       /\ HashLinesOf(Stanzas[k].lines) = {}
       /\ Stanzas[k].comments # <<>>

\* The version the selection gives the variants of a name.
SelectedVersionOf(name) == selection[CHOOSE p \in Selected : p.name = name]

\* C12: every edge of a returned graph has a justification in the store: a
\* dependency of a variant of the source's name on a variant of the target's name
\* whose self_version contains the selected version of the source's name.
C12_EdgeRelevance ==
  Returned =>
    \A e \in 1..Len(Edges) :
      \E i \in 1..Len(store) :
        /\ store[i].self_package.name = Nodes[Edges[e].source].name
        /\ store[i].dependency_package.name = Nodes[Edges[e].target].name
        /\ SelectedVersionOf(Nodes[Edges[e].source].name) \in store[i].self_version

\* The steps of the edge pass in a visit order: <<i, j>> for the justification
\* store[j] read from the list of the i-th visited entry; and their order.
StepsOf(visit) ==
  {st \in (1..Len(visit)) \X (1..Len(store)) : ListedUnder(store[st[2]], visit[st[1]])}
StepAfter(s, t) == s[1] > t[1] \/ (s[1] = t[1] /\ s[2] > t[2])
\* A justification concerns an edge: between packages of the names of its two nodes.
Concerns(dep, edge) ==
  /\ IsPackage(dep.self_package) /\ IsPackage(dep.dependency_package)
  /\ dep.self_package.name = Nodes[edge.source].name
  /\ dep.dependency_package.name = Nodes[edge.target].name
\* A surviving justification: between different names, with a self_version that
\* contains the selected version of its self package.
Survives(dep) ==
  /\ dep.self_package.name # dep.dependency_package.name
  /\ \E p \in Selected : p.name = dep.self_package.name
  /\ SelectedVersionOf(dep.self_package.name) \in dep.self_version

\* C13: a returned graph has at most one edge for each ordered pair of nodes; the
\* label of an edge whose pair has surviving justifications is the dependency_range
\* of the one of them that the edge pass processed last; and the edge pass leaves
\* the nodes of the node pass as they are.
C13_EdgeUpsert ==
  Returned =>
    /\ \A e, g \in 1..Len(Edges) :
         (Edges[e].source = Edges[g].source /\ Edges[e].target = Edges[g].target) => e = g
    /\ \A e \in 1..Len(Edges) :
         LET surviving == {s \in StepsOf(order) :
                             Concerns(store[s[2]], Edges[e]) /\ Survives(store[s[2]])}
         IN surviving # {} =>
              \E s \in surviving :
                /\ Edges[e].weight = store[s[2]].dependency_range
                /\ \A t \in surviving : t # s => StepAfter(s, t)
    /\ Nodes = NodePass(NewGraph, order, 1).petgraph.nodes

\* C14: from_state aborts in the node pass or not at all: once the node pass has
\* completed, every justification that passes the tests of the edge pass finds the
\* node indices of both its names, and the edge pass completes.
C14_EdgePassCompletes ==
  pc \in {"panicked", "failed"} => culprit.pass = "nodes"

\* The seed requirements of an environment whose interpreter is python_tuple: pip,
\* and setuptools and wheel below Python 3.12.
Below312(python_tuple) ==
  python_tuple[1] < 3 \/ (python_tuple[1] = 3 /\ python_tuple[2] < 12)
ExpectedSeed(python_tuple) ==
  IF Below312(python_tuple) THEN <<"pip", "setuptools", "wheel">> ELSE <<"pip">>
IsPrefix(s, t) == Len(s) <= Len(t) /\ s = SubSeq(t, 1, Len(s))

\* C15: create_venv, resolve and install are called at most once each and in this
\* order, resolve only with seed and after create_venv succeeded, install only after
\* resolve succeeded; the requirements resolved and installed are pip, plus
\* setuptools and wheel exactly when the environment's interpreter is below 3.12;
\* without seed nothing is resolved or installed; and venv returns Ok, with the
\* status Failure exactly when venv_impl returned an error.
C15_VenvSeed ==
  /\ IsPrefix(calls, <<"create_venv", "resolve", "install">>)
  /\ Len(calls) >= 2 =>
       /\ seed /\ venv.created
       /\ requirements = ExpectedSeed(venv.interpreter)
  /\ Len(calls) < 2 => requirements = <<>> /\ resolution = <<>>
  /\ Len(calls) = 3 => resolution = requirements
  /\ installed # <<>> => Len(calls) = 3 /\ installed = ExpectedSeed(venv.interpreter)
  /\ ~seed => Len(calls) <= 1 /\ installed = <<>>
  /\ venv.created => venv.interpreter = interpreter /\ calls # <<>>
  /\ venv_pc = "returned" =>
       /\ result \in {"Ok", "Err"}
       /\ status = IF result = "Err" THEN "Ok(Failure)" ELSE "Ok(Success)"
       /\ (result = "Ok" /\ seed) => installed = ExpectedSeed(venv.interpreter)
  /\ venv_pc # "returned" => status = "none"

\* C15's case: venv returned success for a seeded environment of an interpreter
\* below 3.12, with pip, setuptools and wheel installed.
C15_Witness ==
  /\ venv_pc = "returned" /\ status = "Ok(Success)"
  /\ seed /\ Below312(venv.interpreter)
  /\ installed = <<"pip", "setuptools", "wheel">>
  /\ calls = <<"create_venv", "resolve", "install">>

====
